---------------------------- MODULE Spec2Model ----------------------------
(***************************************************************************)
(* Model of the audit-independence analysis pipeline:                      *)
(*   backend/app.py          the /analyze handler                          *)
(*   backend/services/engine.py   safe_json_parse, stage2_inject_law_context, *)
(*                           build_graph_image_url                         *)
(*   frontend/main.py        the dashboard's analysis run                  *)
(*                                                                         *)
(* A Python str is a sequence of characters; every character is a TLA+     *)
(* string.  TLA+ strings are ASCII, so a Hangul syllable is written as its *)
(* romanisation in angle brackets ("<su>" is the syllable 수).  A fixed    *)
(* literal of the source that no code inspects (a citation sentence, a     *)
(* connector of the markup) is written as one element.  None is the        *)
(* one-element sequence NoneVal, which no text contains.  A Python dict is *)
(* a record whose field `keys` lists the keys present, in insertion order; *)
(* the other fields hold the values (a default where the key is absent).   *)
(***************************************************************************)
EXTENDS Integers, Sequences, FiniteSets, TLC

VARIABLES
    pc,               \* where the dashboard's run is (main.py 100-219)
    who,              \* which code runs the pipeline: "backend" or "local"
    stage,            \* where that pipeline execution is
    use_backend,      \* main.py 110
    graph_data, law_context, raw_analysis, status, analysis_result,
    mm_code, graph_url,   \* the locals of the pipeline
    calls,            \* the stage calls of the current execution, in order
    data,             \* the dashboard's result dict
    session,          \* st.session_state["analysis_result"]
    error_shown       \* st.error was called in this run

vars == <<pc, who, stage, use_backend, graph_data, law_context, raw_analysis,
          status, analysis_result, mm_code, graph_url, calls, data, session,
          error_shown>>

---------------------------------------------------------------------------
(* Strings                                                                 *)

NoneVal == <<"<None>">>

\* str(x): the text of a str is itself, str(None) is "None".
PyStr(v) == IF v = NoneVal THEN <<"N", "o", "n", "e">> ELSE v

\* The characters str.strip() removes (those that occur in the inputs).
Whitespace == {" ", "\n", "\t"}

\* sub in s: sub occurs in s as a contiguous substring.  (s is bound once,
\* as t, so that it is computed once.)
Contains(s, sub) ==
    \E t \in {s} :
      \E i \in 0..(Len(t) - Len(sub)) : SubSeq(t, i + 1, i + Len(sub)) = sub

RECURSIVE LStrip(_)
LStrip(s) ==
    IF s # <<>> /\ Head(s) \in Whitespace THEN LStrip(Tail(s)) ELSE s

RECURSIVE RStrip(_)
RStrip(s) ==
    IF s # <<>> /\ s[Len(s)] \in Whitespace
    THEN RStrip(SubSeq(s, 1, Len(s) - 1))
    ELSE s

\* s.strip()
Strip(s) == RStrip(LStrip(s))

\* any(k in s for k in keywords)
AnyIn(keywords, s) == \E k \in keywords : Contains(s, k)

RECURSIVE Concat(_)
\* "".join(parts)  (parts is bound once, as p)
Concat(parts) ==
    CHOOSE r \in {IF p = <<>> THEN <<>> ELSE Head(p) \o Concat(Tail(p)) :
                    p \in {parts}} : TRUE

RECURSIVE Join(_, _)
\* sep.join(parts)  (parts is bound once, as p)
Join(sep, parts) ==
    CHOOSE r \in {IF p = <<>> THEN <<>>
                   ELSE IF Len(p) = 1 THEN p[1]
                   ELSE p[1] \o sep \o Join(sep, Tail(p)) : p \in {parts}} : TRUE

\* All sequences over S of length at most n.
SeqsUpTo(S, n) == UNION {[1..k -> S] : k \in 0..n}

---------------------------------------------------------------------------
(* Dicts                                                                   *)

\* k in d
Has(d, k) == \E i \in 1..Len(d.keys) : d.keys[i] = k

\* d.get(k, default)
Get(d, k, default) == IF Has(d, k) THEN d[k] ELSE default

---------------------------------------------------------------------------
(* Status normalization: app.py 63-76, main.py 167-180 and 205-217         *)

\* "수임 불가"
UNACCEPTABLE == <<"<su>", "<im>", " ", "<bul>", "<ga>">>
\* "안전장치 적용 시 수임 가능"
ACCEPTABLE_WITH_SAFEGUARDS ==
    <<"<an>", "<jeon>", "<jang>", "<chi>", " ", "<jeok>", "<yong>", " ",
      "<si>", " ", "<su>", "<im>", " ", "<ga>", "<neung>">>
\* "수임 가능"
ACCEPTABLE == <<"<su>", "<im>", " ", "<ga>", "<neung>">>
\* A plausible slip: a fallback text that holds a marker, "수임 가능 검토 중".
UNDER_REVIEW_WithMarker ==
    ACCEPTABLE \o <<" ", "<geom>", "<to>", " ", "<jung>">>

\* "검토 중"
UNDER_REVIEW == <<"<geom>", "<to>", " ", "<jung>">>
\* "안전장치"
SafeguardsMarker == <<"<an>", "<jeon>", "<jang>", "<chi>">>

valid_statuses == {UNACCEPTABLE, ACCEPTABLE_WITH_SAFEGUARDS, ACCEPTABLE}

\* A plausible slip: the safeguards marker tested before the unacceptable one.
ResolveMarkers_SafeguardsFirst(s) ==
    IF Contains(s, SafeguardsMarker) THEN ACCEPTABLE_WITH_SAFEGUARDS
    ELSE IF Contains(s, UNACCEPTABLE) THEN UNACCEPTABLE
    ELSE IF Contains(s, ACCEPTABLE) THEN ACCEPTABLE
    ELSE UNDER_REVIEW

\* The if/elif/elif/else chain over the trimmed status.
ResolveMarkers(s) ==
    IF Contains(s, UNACCEPTABLE) THEN UNACCEPTABLE
    ELSE IF Contains(s, SafeguardsMarker) THEN ACCEPTABLE_WITH_SAFEGUARDS
    ELSE IF Contains(s, ACCEPTABLE) THEN ACCEPTABLE
    ELSE UNDER_REVIEW

\* status = str(raw_analysis.get("status", "")).strip(), then the chain
\* unless the trimmed text is one of valid_statuses.
NormalizeStatus(d) ==
    LET s == Strip(PyStr(Get(d, "status", <<>>)))
    IN  IF s \in valid_statuses THEN s ELSE ResolveMarkers(s)

\* The dashboard's additional normalization: data["status"] is assigned only
\* when the trimmed text is not one of valid_statuses; otherwise the entry
\* (or its absence) is left as it was.
DashboardNormalize(d) ==
    LET raw_status == Strip(PyStr(Get(d, "status", <<>>)))
    IN  IF raw_status \in valid_statuses
        THEN d
        ELSE [d EXCEPT !.status = ResolveMarkers(raw_status),
                       !.keys = IF Has(d, "status") THEN d.keys
                                ELSE Append(d.keys, "status")]

---------------------------------------------------------------------------
(* safe_json_parse: engine.py 43-54                                        *)

\* The dict type of the model: the keys the pipeline reads.
EmptyDict ==
    [keys |-> <<>>, nodes |-> <<>>, relationships |-> <<>>,
     error |-> <<>>, details |-> <<>>, status |-> <<>>, reason |-> <<>>,
     safeguards |-> <<>>, relevant_laws |-> <<>>, risky_node_ids |-> <<>>,
     risky_edge_indices |-> <<>>]

\* A model reply is a text made of these pieces, and the object that the
\* JSON_OBJECT piece spells out.
\* FENCE is the three backquotes of a code fence, FENCE_JSON the same
\* followed by the word json.
FENCE_JSON == "<fence>json"
FENCE == "<fence>"
JSON_OBJECT == "{...}"
JSON_TRUNCATED == "{.."
PROSE == "Here is the result:"

NoMatch == <<"<no match>">>

SetMin(S) == CHOOSE x \in S : \A y \in S : x <= y

\* re.search(pattern, content, re.DOTALL) for the pattern FENCE_JSON \s*
\* (.*?) \s* FENCE: group(1) of the leftmost match, the shortest text up to
\* the next fence with the white space around it left out.  The backquotes
\* that open a later FENCE_JSON close a match too.
FencedBody(text) ==
    LET closes(i) == {j \in (i + 1)..Len(text) : text[j] \in {FENCE, FENCE_JSON}}
        opens == {i \in 1..Len(text) : text[i] = FENCE_JSON /\ closes(i) # {}}
    IN  IF opens = {} THEN NoMatch
        ELSE LET i == SetMin(opens)
             IN  Strip(SubSeq(text, i + 1, SetMin(closes(i)) - 1))

\* {"error": "JSON_PARSE_ERROR", "details": str(e)}; the message of a
\* json.JSONDecodeError names a position, never the text it failed on.
ErrorMarker ==
    [EmptyDict EXCEPT
       !.keys = <<"error", "details">>,
       !.error = <<"J", "S", "O", "N", "_", "P", "A", "R", "S", "E", "_", "E", "R", "R",
      "O", "R">>,
       !.details = <<"Expecting value: line 1 column 1 (char 0)">>]

\* A plausible slip: the parse error is dropped and an empty object returned.
safe_json_parse_EmptyOnError(content) ==
    LET body == FencedBody(content.text)
        json_str == IF body # NoMatch THEN body ELSE content.text
    IN  IF Strip(json_str) = <<JSON_OBJECT>> THEN content.obj ELSE EmptyDict

\* json.loads accepts white space around the one value and raises on
\* anything else; the except clause turns the exception into the marker.
safe_json_parse(content) ==
    LET body == FencedBody(content.text)
        json_str == IF body # NoMatch THEN body ELSE content.text
    IN  IF Strip(json_str) = <<JSON_OBJECT>> THEN content.obj ELSE ErrorMarker

---------------------------------------------------------------------------
(* str(graph_data): the repr of a dict                                     *)

KeyText ==
    [nodes |-> <<"n", "o", "d", "e", "s">>,
     relationships |->
       <<"r", "e", "l", "a", "t", "i", "o", "n", "s", "h", "i", "p", "s">>,
     error |-> <<"e", "r", "r", "o", "r">>,
     details |-> <<"d", "e", "t", "a", "i", "l", "s">>,
     status |-> <<"s", "t", "a", "t", "u", "s">>,
     reason |-> <<"r", "e", "a", "s", "o", "n">>,
     safeguards |-> <<"s", "a", "f", "e", "g", "u", "a", "r", "d", "s">>,
     relevant_laws |->
       <<"r", "e", "l", "e", "v", "a", "n", "t", "_", "l", "a", "w", "s">>,
     risky_node_ids |->
       <<"r", "i", "s", "k", "y", "_", "n", "o", "d", "e", "_", "i", "d", "s">>,
     risky_edge_indices |->
       <<"r", "i", "s", "k", "y", "_", "e", "d", "g", "e", "_", "i", "n", "d",
      "i", "c", "e", "s">>,
     id |-> <<"i", "d">>,
     label |-> <<"l", "a", "b", "e", "l">>,
     properties |-> <<"p", "r", "o", "p", "e", "r", "t", "i", "e", "s">>,
     source_id |-> <<"s", "o", "u", "r", "c", "e", "_", "i", "d">>,
     target_id |-> <<"t", "a", "r", "g", "e", "t", "_", "i", "d">>,
     type |-> <<"t", "y", "p", "e">>]

Digit == <<"0", "1", "2", "3", "4", "5", "6", "7", "8", "9">>

RECURSIVE NatText(_)
NatText(n) ==
    IF n < 10 THEN <<Digit[n + 1]>>
    ELSE NatText(n \div 10) \o <<Digit[(n % 10) + 1]>>

\* repr of an int
ReprInt(n) == IF n < 0 THEN <<"-">> \o NatText(-n) ELSE NatText(n)

\* repr of a str (the inputs hold no quote, backslash or control character)
\* or of None
ReprStr(s) == IF s = NoneVal THEN PyStr(s) ELSE <<"'">> \o s \o <<"'">>

ReprItems(items) == <<"{">> \o Join(<<",", " ">>, items) \o <<"}">>

ReprList(items) == <<"[">> \o Join(<<",", " ">>, items) \o <<"]">>

ReprEntry(k, v) == ReprStr(KeyText[k]) \o <<":", " ">> \o v

\* properties: a list of (key, value) pairs of str
ReprProps(p) ==
    ReprItems([i \in 1..Len(p) |->
                 ReprStr(p[i][1]) \o <<":", " ">> \o ReprStr(p[i][2])])

ReprNode(n) ==
    ReprItems([i \in 1..Len(n.keys) |->
                 ReprEntry(n.keys[i],
                           IF n.keys[i] = "properties"
                           THEN ReprProps(n.properties)
                           ELSE ReprStr(n[n.keys[i]]))])

ReprEdge(e) ==
    ReprItems([i \in 1..Len(e.keys) |-> ReprEntry(e.keys[i], ReprStr(e[e.keys[i]]))])

ReprValue(d, k) ==
    CASE k = "nodes" -> ReprList([i \in 1..Len(d.nodes) |-> ReprNode(d.nodes[i])])
      [] k = "relationships" ->
           ReprList([i \in 1..Len(d.relationships) |-> ReprEdge(d.relationships[i])])
      [] k = "risky_edge_indices" ->
           ReprList([i \in 1..Len(d[k]) |-> ReprInt(d[k][i])])
      [] k \in {"safeguards", "relevant_laws", "risky_node_ids"} ->
           ReprList([i \in 1..Len(d[k]) |-> ReprStr(d[k][i])])
      [] OTHER -> ReprStr(d[k])

\* str(d)
ReprDict(d) ==
    ReprItems([i \in 1..Len(d.keys) |-> ReprEntry(d.keys[i], ReprValue(d, d.keys[i]))])

---------------------------------------------------------------------------
(* stage2_inject_law_context: engine.py 84-117                             *)

\* "주식", "회원권", "지분", "OWNS"
EquityKeywords ==
    {<<"<ju>", "<sik>">>, <<"<hoe>", "<won>", "<gwon>">>, <<"<ji>", "<bun>">>,
     <<"O", "W", "N", "S">>}
\* "계리", "자문", "Consulting"
NonAuditKeywords ==
    {<<"<gye>", "<ri>">>, <<"<ja>", "<mun>">>,
     <<"C", "o", "n", "s", "u", "l", "t", "i", "n", "g">>}
\* "카드", "할부", "대출", "차입"
LoanKeywords ==
    {<<"<ka>", "<deu>">>, <<"<hal>", "<bu>">>, <<"<dae>", "<chul>">>, <<"<cha>", "<ip>">>}
\* "배우자", "FAMILY_OF"
FamilyKeywords ==
    {<<"<bae>", "<u>", "<ja>">>, <<"F", "A", "M", "I", "L", "Y", "_", "O", "F">>}

\* "[공인회계사법 제21조] 감사인 또는 그 배우자가 피감사회사의 주식, 사채, 회원권 등을 보유한 경우 감사업무 금지."
LAW_EQUITY == <<"[CPA Act art. 21] holding shares, bonds or memberships of the audited company">>
\* "[외부감사법 제9조] 비감사서비스(보험계리, 내부통제 구축 등) 제공 시 독립성 훼손으로 간주."
LAW_NON_AUDIT == <<"[External Audit Act art. 9] providing non-audit services">>
\* "[공인회계사법 시행령 제14조] 5천만원 이상의 채권/채무는 금지되나, 금융기관의 통상적 약관에 따른 거래는 예외."
LAW_LOAN == <<"[CPA Act Enforcement Decree art. 14] claims or debts of 50 million won or more">>
\* "[윤리기준] 감사팀 소속원의 직계 가족이 피감사인의 임원인 경우 수임 제한."
LAW_FAMILY == <<"[Code of Ethics] a close relative is an officer of the audited company">>
\* "일반적 독립성 준수 원칙 적용"
DEFAULT_LAW_CONTEXT == <<"general independence principles apply">>

\* A plausible slip: the family rule is appended before the loan rule.
stage2_FamilyBeforeLoan(g) ==
    LET data_str == ReprDict(g)
        c1 == IF AnyIn(EquityKeywords, data_str) THEN <<LAW_EQUITY>> ELSE <<>>
        c2 == c1 \o (IF AnyIn(NonAuditKeywords, data_str) THEN <<LAW_NON_AUDIT>> ELSE <<>>)
        c3 == c2 \o (IF AnyIn(FamilyKeywords, data_str) THEN <<LAW_FAMILY>> ELSE <<>>)
        context == c3 \o (IF AnyIn(LoanKeywords, data_str) THEN <<LAW_LOAN>> ELSE <<>>)
    IN  IF context # <<>> THEN Join(<<"\n">>, context) ELSE DEFAULT_LAW_CONTEXT

\* context grows by one citation per if statement, in the order of the
\* statements; the result is the join, or the default sentence when empty.
stage2_inject_law_context(g) ==
    LET data_str == ReprDict(g)
        c1 == IF AnyIn(EquityKeywords, data_str) THEN <<LAW_EQUITY>> ELSE <<>>
        c2 == c1 \o (IF AnyIn(NonAuditKeywords, data_str) THEN <<LAW_NON_AUDIT>> ELSE <<>>)
        c3 == c2 \o (IF AnyIn(LoanKeywords, data_str) THEN <<LAW_LOAN>> ELSE <<>>)
        context == c3 \o (IF AnyIn(FamilyKeywords, data_str) THEN <<LAW_FAMILY>> ELSE <<>>)
    IN  IF context # <<>> THEN Join(<<"\n">>, context) ELSE DEFAULT_LAW_CONTEXT

---------------------------------------------------------------------------
(* build_graph_image_url: engine.py 209-256                                *)

EmptyNode == [keys |-> <<>>, id |-> NoneVal, label |-> <<>>, properties |-> <<>>]
EmptyEdge == [keys |-> <<>>, source_id |-> NoneVal, target_id |-> NoneVal, type |-> NoneVal]

PropKey ==
    [name |-> <<"n", "a", "m", "e">>,
     type |-> <<"t", "y", "p", "e">>,
     firm_role |-> <<"f", "i", "r", "m", "_", "r", "o", "l", "e">>,
     position |-> <<"p", "o", "s", "i", "t", "i", "o", "n">>]

\* props.get(k, default), props a list of (key, value) pairs with distinct keys
PropGet(props, k, default) ==
    IF \E i \in 1..Len(props) : props[i][1] = PropKey[k]
    THEN props[CHOOSE i \in 1..Len(props) : props[i][1] = PropKey[k]][2]
    ELSE default

\* Python truth of a str or None
Truthy(v) == v # NoneVal /\ v # <<>>

\* a or b
Or(a, b) == IF Truthy(a) THEN a ELSE b

\* x in xs, xs a list
In(x, xs) == \E i \in 1..Len(xs) : xs[i] = x

\* The warning sign and its variation selector.
WARN == "<warning sign>"

MM_HEADER == <<"graph TD">>
CLASSDEF_NORMAL ==
    <<"    classDef normalNode fill:#ffffff,stroke:#333,stroke-width:1px;">>
CLASSDEF_RISKY ==
    <<"    classDef riskyNode fill:#fff5f5,stroke:#ff0000,stroke-width:2px,stroke-dasharray: 5 5;">>

\* A plausible slip: a node that has a role is never styled as risky.
NodeLine_RoleHidesRisk(node, risky_nodes) ==
    LET nid == Get(node, "id", NoneVal)
        props == Get(node, "properties", <<>>)
        name == Or(Or(PropGet(props, "name", NoneVal),
                      PropGet(props, "type", NoneVal)), nid)
        role == Or(PropGet(props, "firm_role", <<>>),
                   PropGet(props, "position", <<>>))
        risky == In(nid, risky_nodes) /\ ~Truthy(role)
        display_text ==
            IF Truthy(role)
            THEN <<"<b>">> \o PyStr(name) \o <<"</b><br/>[">> \o PyStr(role) \o <<"]">>
            ELSE PyStr(name)
    IN  <<"    ">> \o PyStr(nid) \o <<"[\"">>
          \o (IF risky THEN <<WARN, " ">> ELSE <<>>)
          \o display_text \o <<"\"]:::">>
          \o (IF risky THEN <<"riskyNode">> ELSE <<"normalNode">>)

\* The line appended for one node (lines 218-228).
NodeLine(node, risky_nodes) ==
    LET nid == Get(node, "id", NoneVal)
        props == Get(node, "properties", <<>>)
        name == Or(Or(PropGet(props, "name", NoneVal),
                      PropGet(props, "type", NoneVal)), nid)
        role == Or(PropGet(props, "firm_role", <<>>),
                   PropGet(props, "position", <<>>))
        display_text ==
            IF Truthy(role)
            THEN <<"<b>">> \o PyStr(name) \o <<"</b><br/>[">> \o PyStr(role) \o <<"]">>
            ELSE PyStr(name)
    IN  <<"    ">> \o PyStr(nid) \o <<"[\"">>
          \o (IF In(nid, risky_nodes) THEN <<WARN, " ">> ELSE <<>>)
          \o display_text \o <<"\"]:::">>
          \o (IF In(nid, risky_nodes) THEN <<"riskyNode">> ELSE <<"normalNode">>)

\* t.replace("_", " ")
ReplaceUnderscores(t) == [i \in 1..Len(t) |-> IF t[i] = "_" THEN " " ELSE t[i]]

\* label.find(" "): the 0-based index of the first space, -1 when none
FindSpace(label) ==
    IF \E i \in 1..Len(label) : label[i] = " "
    THEN SetMin({i \in 1..Len(label) : label[i] = " "}) - 1
    ELSE -1

\* A plausible slip: every space of a long label becomes a line break.
WrapLabel_EverySpace(label) ==
    IF Len(label) > 12 /\ Contains(label, <<" ">>)
    THEN Concat([i \in 1..Len(label) |->
                   IF label[i] = " " THEN <<"\\", "n">> ELSE <<label[i]>>])
    ELSE label

\* Lines 237-239: backslash and n take the place of the first space.
WrapLabel(label) ==
    IF Len(label) > 12 /\ Contains(label, <<" ">>)
    THEN LET first_space == FindSpace(label)
         IN  SubSeq(label, 1, first_space) \o <<"\\", "n">>
               \o SubSeq(label, first_space + 2, Len(label))
    ELSE label

\* A plausible slip: enumerate counted from 1.
EdgeIsRisky_OneBased(idx, risky_edge_indices) == In(idx + 1, risky_edge_indices)

\* idx in analysis.get("risky_edge_indices", [])
EdgeIsRisky(idx, risky_edge_indices) == In(idx, risky_edge_indices)

\* The line appended for the edge at 0-based position idx (lines 231-243);
\* the edge has a type.
EdgeLine(idx, edge, risky_edge_indices) ==
    LET s == Get(edge, "source_id", NoneVal)
        e == Get(edge, "target_id", NoneVal)
        t == Get(edge, "type", NoneVal)
        label == WrapLabel(ReplaceUnderscores(t))
    IN  IF EdgeIsRisky(idx, risky_edge_indices)
        THEN <<"    ">> \o PyStr(s) \o <<" -. \"", WARN, " ">> \o label
               \o <<"\" .-> ">> \o PyStr(e)
        ELSE <<"    ">> \o PyStr(s) \o <<" ---|\"">> \o label
               \o <<"\"| ">> \o PyStr(e)

\* A plausible slip: the class declarations in the other order.
MM_FOOTER_RiskyFirst == <<CLASSDEF_RISKY, CLASSDEF_NORMAL>>

MM_FOOTER == <<CLASSDEF_NORMAL, CLASSDEF_RISKY>>

NoUrl == [base |-> "", b64_of |-> <<>>]

\* The call as a whole.  t.replace raises AttributeError at the first edge
\* whose type is None: `raised` says so, and mm_code is then the list as the
\* exception left it.  graph_url stands for the base path followed by the
\* base64 text of the joined lines: b64_of names the text that is encoded.
build_graph_image_url(graph, analysis) ==
    LET risky_nodes == Get(analysis, "risky_node_ids", <<>>)
        nodes == Get(graph, "nodes", <<>>)
        rels == Get(graph, "relationships", <<>>)
        node_lines == [i \in 1..Len(nodes) |-> NodeLine(nodes[i], risky_nodes)]
        untyped == {i \in 1..Len(rels) : Get(rels[i], "type", NoneVal) = NoneVal}
        done == IF untyped = {} THEN Len(rels) ELSE SetMin(untyped) - 1
        edge_lines ==
            [i \in 1..done |->
               EdgeLine(i - 1, rels[i], Get(analysis, "risky_edge_indices", <<>>))]
        body == <<MM_HEADER>> \o node_lines \o edge_lines
    IN  IF untyped # {}
        THEN [raised |-> TRUE, mm_code |-> body, graph_url |-> NoUrl]
        ELSE [raised |-> FALSE, mm_code |-> body \o MM_FOOTER,
              graph_url |->
                [base |-> "https://mermaid.ink/img/",
                 b64_of |-> Join(<<"\n">>, body \o MM_FOOTER)]]

---------------------------------------------------------------------------
(* The replies of the two models, and the inputs of the pure functions     *)

MkNode(id, label, props) ==
    [keys |-> <<"id", "label", "properties">>, id |-> id, label |-> label,
     properties |-> props]

MkEdge(s, e, t) ==
    [keys |-> <<"source_id", "target_id", "type">>, source_id |-> s,
     target_id |-> e, type |-> t]

\* An edge object without the key "type".
MkUntypedEdge(s, e) ==
    [EmptyEdge EXCEPT !.keys = <<"source_id", "target_id">>, !.source_id = s,
                      !.target_id = e]

MkGraph(nodes, rels) ==
    [EmptyDict EXCEPT !.keys = <<"nodes", "relationships">>, !.nodes = nodes,
                      !.relationships = rels]

P1 == <<"p", "1">>
P2 == <<"p", "2">>
O1 == <<"o", "1">>
ZZ == <<"z", "z">>
Person == <<"P", "e", "r", "s", "o", "n">>
Organization ==
    <<"O", "r", "g", "a", "n", "i", "z", "a", "t", "i", "o", "n">>
\* "김한국"
NameKim == <<"<gim>", "<han>", "<guk>">>
NameC == <<"C">>
\* "감사본부"
RoleAudit == <<"<gam>", "<sa>", "<bon>", "<bu>">>
\* "세무본부"
RoleTax == <<"<se>", "<mu>", "<bon>", "<bu>">>

NodeAuditor ==
    MkNode(P1, Person, <<<<PropKey.name, NameKim>>, <<PropKey.firm_role, RoleAudit>>>>)
NodeClient == MkNode(O1, Organization, <<<<PropKey.name, NameC>>>>)
\* no name: the position is the role, the id is the display text
NodeUnnamed == MkNode(P2, Person, <<<<PropKey.position, RoleTax>>>>)
\* no "id", no "properties"
NodeNoId == [EmptyNode EXCEPT !.keys = <<"label">>, !.label = Person]

EMPLOYED_BY == <<"E", "M", "P", "L", "O", "Y", "E", "D", "_", "B", "Y">>
OWNS == <<"O", "W", "N", "S">>
FAMILY_OF == <<"F", "A", "M", "I", "L", "Y", "_", "O", "F">>
SIGNIFICANT_INFLUENCE_OVER ==
    <<"S", "I", "G", "N", "I", "F", "I", "C", "A", "N", "T", "_", "I", "N",
      "F", "L", "U", "E", "N", "C", "E", "_", "O", "V", "E", "R">>
BOARD_MEMBER == <<"B", "O", "A", "R", "D", "_", "M", "E", "M", "B", "E", "R">>
AUDIT_CLIENTS == <<"A", "U", "D", "I", "T", "_", "C", "L", "I", "E", "N", "T", "S">>
SHAREHOLDINGS == <<"S", "H", "A", "R", "E", "H", "O", "L", "D", "I", "N", "G", "S">>

GraphEmployed ==
    MkGraph(<<NodeAuditor, NodeClient>>, <<MkEdge(P1, O1, EMPLOYED_BY)>>)
GraphOwns ==
    MkGraph(<<NodeAuditor, NodeClient, NodeUnnamed>>,
            <<MkEdge(P1, O1, OWNS), MkEdge(P1, P2, FAMILY_OF),
              MkEdge(P2, O1, SIGNIFICANT_INFLUENCE_OVER)>>)
GraphUntyped ==
    MkGraph(<<NodeAuditor, NodeClient>>,
            <<MkEdge(P1, O1, EMPLOYED_BY), MkUntypedEdge(P1, O1)>>)

\* What the extraction model may reply.  response_format json_object makes a
\* complete reply one JSON object; a reply can still be cut short, be empty,
\* or come wrapped in prose or a code fence.
GraphReplies ==
    {[text |-> <<JSON_OBJECT>>, obj |-> GraphEmployed],
     [text |-> <<FENCE_JSON, "\n", JSON_OBJECT, "\n", FENCE>>, obj |-> GraphOwns],
     [text |-> <<PROSE, "\n", FENCE_JSON, JSON_OBJECT, FENCE, "\n">>, obj |-> GraphOwns],
     [text |-> <<" ", JSON_OBJECT, "\n">>, obj |-> GraphUntyped],
     [text |-> <<JSON_TRUNCATED>>, obj |-> GraphOwns],
     [text |-> <<PROSE, " ", JSON_OBJECT>>, obj |-> GraphOwns],
     [text |-> <<FENCE_JSON, "\n", JSON_TRUNCATED, FENCE>>, obj |-> GraphOwns],
     [text |-> <<>>, obj |-> EmptyDict]}

Reason == <<"<b>[...]</b><li>...</li>">>
Safeguard == <<"...">>
LawCited == <<"...", " ", "21">>

MkAnalysis(st, nodes, edges) ==
    [EmptyDict EXCEPT
       !.keys = <<"status", "reason", "safeguards", "relevant_laws",
                  "risky_node_ids", "risky_edge_indices">>,
       !.status = st, !.reason = Reason, !.safeguards = <<Safeguard>>,
       !.relevant_laws = <<LawCited>>, !.risky_node_ids = nodes,
       !.risky_edge_indices = edges]

\* "해"
Hae == <<"<hae>">>

\* What the opinion model may reply.
AnalysisReplies ==
    {[text |-> <<JSON_OBJECT>>, obj |-> MkAnalysis(UNACCEPTABLE, <<P1>>, <<0>>)],
     [text |-> <<FENCE_JSON, "\n", JSON_OBJECT, "\n", FENCE>>,
      obj |-> MkAnalysis(ACCEPTABLE_WITH_SAFEGUARDS \o Hae, <<ZZ, O1>>, <<1, 7, -1>>)],
     [text |-> <<JSON_OBJECT>>,
      obj |-> [EmptyDict EXCEPT !.keys = <<"reason">>, !.reason = Reason]],
     [text |-> <<JSON_OBJECT>>, obj |-> MkAnalysis(<<" ">> \o ACCEPTABLE, <<>>, <<>>)],
     [text |-> <<JSON_TRUNCATED>>, obj |-> MkAnalysis(UNACCEPTABLE, <<P1>>, <<0>>)],
     [text |-> <<>>, obj |-> EmptyDict]}

---------------------------------------------------------------------------
(* The pipeline: app.py 50-91 and main.py 156-193                          *)

Executors == {"backend", "local"}

NoData ==
    [keys |-> <<>>, status |-> <<>>, reason_html |-> <<>>, safeguards |-> <<>>,
     relevant_laws |-> <<>>, graph |-> EmptyDict, law_context |-> <<>>,
     risky_node_ids |-> <<>>, risky_edge_indices |-> <<>>,
     graph_image_url |-> NoUrl]

\* One entry of calls: the stage, the graph it returned (extract) or was
\* given, the opinion it returned (opine) or was given (render), and the
\* text the model replied with (NoneVal when the model call raised).
Call(name, graph, analysis, reply) ==
    [name |-> name, graph |-> graph, analysis |-> analysis, reply |-> reply]

\* A plausible slip: the diagram is built before the opinion is asked for.
StageAfter_RenderBeforeOpinion(s) ==
    CASE s = "s1" -> "s2"
      [] s = "s2" -> "render"
      [] s = "render" -> "s3"
      [] s = "s3" -> "norm"
      [] s = "norm" -> "respond"

\* The statements of the handler in their order: stage 1, stage 2, stage 3,
\* the status normalization, the diagram, the response.
StageAfter(s) ==
    CASE s = "s1" -> "s2"
      [] s = "s2" -> "s3"
      [] s = "s3" -> "norm"
      [] s = "norm" -> "render"
      [] s = "render" -> "respond"

\* graph_data = stage1_nlp_to_graph(scenario): the model call raises, or its
\* reply goes through safe_json_parse.
Stage1(w) ==
    /\ who = w /\ stage = "s1"
    /\ \/ /\ \E reply \in GraphReplies :
               /\ graph_data' = safe_json_parse(reply)
               /\ calls' = Append(calls, Call("extract", graph_data', EmptyDict,
                                              reply.text))
          /\ stage' = StageAfter("s1")
       \/ /\ calls' = Append(calls, Call("extract", EmptyDict, EmptyDict, NoneVal))
          /\ stage' = "raised"
          /\ UNCHANGED graph_data
    /\ UNCHANGED <<pc, who, use_backend, law_context, raw_analysis, status,
                   analysis_result, mm_code, graph_url, data, session, error_shown>>

\* law_context = stage2_inject_law_context(graph_data)
Stage2(w) ==
    /\ who = w /\ stage = "s2"
    /\ law_context' = stage2_inject_law_context(graph_data)
    /\ calls' = Append(calls, Call("annotate", graph_data, EmptyDict, <<>>))
    /\ stage' = StageAfter("s2")
    /\ UNCHANGED <<pc, who, use_backend, graph_data, raw_analysis, status,
                   analysis_result, mm_code, graph_url, data, session, error_shown>>

\* raw_analysis = stage3_expert_analysis(scenario, graph_data, law_context)
Stage3(w) ==
    /\ who = w /\ stage = "s3"
    /\ \/ /\ \E reply \in AnalysisReplies :
               /\ raw_analysis' = safe_json_parse(reply)
               /\ calls' = Append(calls, Call("opine", graph_data, raw_analysis',
                                              reply.text))
          /\ stage' = StageAfter("s3")
       \/ /\ calls' = Append(calls, Call("opine", graph_data, EmptyDict, NoneVal))
          /\ stage' = "raised"
          /\ UNCHANGED raw_analysis
    /\ UNCHANGED <<pc, who, use_backend, graph_data, law_context, status,
                   analysis_result, mm_code, graph_url, data, session, error_shown>>

\* {**raw_analysis, "status": status}
WithStatus(d, st) ==
    [d EXCEPT !.status = st,
              !.keys = IF Has(d, "status") THEN d.keys ELSE Append(d.keys, "status")]

\* The status post-processing of the handler and of the local path.
Normalize(w) ==
    /\ who = w /\ stage = "norm"
    /\ status' = NormalizeStatus(raw_analysis)
    /\ analysis_result' = WithStatus(raw_analysis, status')
    /\ stage' = StageAfter("norm")
    /\ UNCHANGED <<pc, who, use_backend, graph_data, law_context, raw_analysis,
                   mm_code, graph_url, calls, data, session, error_shown>>

\* graph_url = build_graph_image_url(graph_data, analysis_result)
Render(w) ==
    /\ who = w /\ stage = "render"
    /\ \E r \in {build_graph_image_url(graph_data, analysis_result)} :
           /\ mm_code' = r.mm_code
           /\ graph_url' = r.graph_url
           /\ stage' = IF r.raised THEN "raised" ELSE StageAfter("render")
    /\ calls' = Append(calls, Call("render", graph_data, analysis_result, <<>>))
    /\ UNCHANGED <<pc, who, use_backend, graph_data, law_context, raw_analysis,
                   status, analysis_result, data, session, error_shown>>

\* The AnalyzeResponse of the handler, which the dashboard reads with
\* resp.json(), and the dict the local path builds: the same nine entries.
ResultDict ==
    [keys |-> <<"status", "reason_html", "safeguards", "relevant_laws", "graph",
                "law_context", "risky_node_ids", "risky_edge_indices",
                "graph_image_url">>,
     status |-> status,
     reason_html |-> Get(analysis_result, "reason", <<>>),
     safeguards |-> Get(analysis_result, "safeguards", <<>>),
     relevant_laws |-> Get(analysis_result, "relevant_laws", <<>>),
     graph |-> graph_data,
     law_context |-> law_context,
     risky_node_ids |-> Get(analysis_result, "risky_node_ids", <<>>),
     risky_edge_indices |-> Get(analysis_result, "risky_edge_indices", <<>>),
     graph_image_url |-> graph_url]

Respond(w) ==
    /\ who = w /\ stage = "respond"
    /\ data' = ResultDict
    /\ stage' = "returned"
    /\ pc' = "post"
    /\ UNCHANGED <<who, use_backend, graph_data, law_context, raw_analysis,
                   status, analysis_result, mm_code, graph_url, calls, session,
                   error_shown>>

---------------------------------------------------------------------------
(* The dashboard's run: main.py 100-219                                    *)

\* The button is pressed with a scenario that is not blank.
RunClicked ==
    /\ pc \in {"idle", "done"}
    /\ pc' = "health"
    /\ who' = "none" /\ stage' = "none" /\ use_backend' = FALSE
    /\ graph_data' = EmptyDict /\ law_context' = <<>>
    /\ raw_analysis' = EmptyDict /\ status' = <<>>
    /\ analysis_result' = EmptyDict /\ mm_code' = <<>> /\ graph_url' = NoUrl
    /\ calls' = <<>> /\ data' = NoData /\ error_shown' = FALSE
    /\ UNCHANGED session

\* GET /health answers 200, or answers otherwise or fails; with 200 the
\* POST /analyze goes out and the handler starts.
HealthCheck ==
    /\ pc = "health"
    /\ \E ok \in BOOLEAN :
         /\ use_backend' = ok
         /\ pc' = IF ok THEN "backend" ELSE "local"
         /\ who' = IF ok THEN "backend" ELSE "local"
    /\ stage' = "s1"
    /\ UNCHANGED <<graph_data, law_context, raw_analysis, status,
                   analysis_result, mm_code, graph_url, calls, data, session,
                   error_shown>>

\* A plausible slip: a failed backend call is reported as an error and the
\* local path is not tried.
BackendFailed_ShowsError ==
    /\ pc = "backend" /\ who = "backend"
    /\ stage \in {"s1", "raised"}
    /\ use_backend' = FALSE
    /\ error_shown' = TRUE
    /\ pc' = "done"
    /\ UNCHANGED <<who, stage, graph_data, law_context, raw_analysis, status,
                   analysis_result, mm_code, graph_url, calls, data, session>>

\* The POST raised a request exception, or the handler raised and the answer
\* is a 500: use_backend = False, the local path starts with locals of its own.
BackendFailed ==
    /\ pc = "backend" /\ who = "backend"
    /\ stage \in {"s1", "raised"}
    /\ use_backend' = FALSE
    /\ pc' = "local" /\ who' = "local" /\ stage' = "s1"
    /\ calls' = <<>>
    /\ graph_data' = EmptyDict /\ law_context' = <<>>
    /\ raw_analysis' = EmptyDict /\ status' = <<>>
    /\ analysis_result' = EmptyDict /\ mm_code' = <<>> /\ graph_url' = NoUrl
    /\ UNCHANGED <<data, session, error_shown>>

\* except Exception: st.error, return.
LocalFailed ==
    /\ pc = "local" /\ who = "local" /\ stage = "raised"
    /\ error_shown' = TRUE
    /\ pc' = "done"
    /\ UNCHANGED <<who, stage, use_backend, graph_data, law_context,
                   raw_analysis, status, analysis_result, mm_code, graph_url,
                   calls, data, session>>

\* Lines 203-219: the additional normalization, then the session entry.
StoreResult ==
    /\ pc = "post"
    /\ data' = DashboardNormalize(data)
    /\ session' = data'
    /\ pc' = "done"
    /\ UNCHANGED <<who, stage, use_backend, graph_data, law_context,
                   raw_analysis, status, analysis_result, mm_code, graph_url,
                   calls, error_shown>>

Init ==
    /\ pc = "idle" /\ who = "none" /\ stage = "none" /\ use_backend = FALSE
    /\ graph_data = EmptyDict /\ law_context = <<>>
    /\ raw_analysis = EmptyDict /\ status = <<>>
    /\ analysis_result = EmptyDict /\ mm_code = <<>> /\ graph_url = NoUrl
    /\ calls = <<>> /\ data = NoData /\ session = NoData
    /\ error_shown = FALSE

Next ==
    \/ RunClicked
    \/ HealthCheck
    \/ BackendFailed
    \/ LocalFailed
    \/ StoreResult
    \/ \E w \in Executors : Stage1(w)
    \/ \E w \in Executors : Stage2(w)
    \/ \E w \in Executors : Stage3(w)
    \/ \E w \in Executors : Normalize(w)
    \/ \E w \in Executors : Render(w)
    \/ \E w \in Executors : Respond(w)

Spec == Init /\ [][Next]_vars

\* The statements of one run, which execute one after the other once the
\* button is pressed; pressing the button again is up to the user.
RunStep ==
    \/ HealthCheck
    \/ BackendFailed
    \/ LocalFailed
    \/ StoreResult
    \/ \E w \in Executors :
         \/ Stage1(w) \/ Stage2(w) \/ Stage3(w)
         \/ Normalize(w) \/ Render(w) \/ Respond(w)

\* Every call made by a run returns or raises: the GET has a timeout of 2
\* seconds, the POST one of 120, and the stages are sequential code.
SpecFair == Spec /\ WF_vars(RunStep)

---------------------------------------------------------------------------
(* The status normalization on its own, over many raw statuses             *)

MaxFragments == 3

\* Pieces a raw status is put together from: white space, the canonical
\* phrases, the markers, halves of a marker, and other text.
StatusFragments ==
    {<<" ">>, <<"\n">>, UNACCEPTABLE, ACCEPTABLE_WITH_SAFEGUARDS,
     SafeguardsMarker, ACCEPTABLE, Hae, <<"<su>", "<im>">>, <<"<bul>", "<ga>">>}

\* Every text of at most MaxFragments pieces, and None (a JSON null).
RawStatuses ==
    {Concat(fs) : fs \in SeqsUpTo(StatusFragments, MaxFragments)} \cup {NoneVal}

\* The opinion objects: a status entry of any of these values, or none.
RawAnalyses ==
    {[EmptyDict EXCEPT !.keys = <<"status">>, !.status = s] : s \in RawStatuses}
      \cup {[EmptyDict EXCEPT !.keys = <<"reason">>, !.reason = Reason]}

\* The result dicts that reach line 205: a status entry of any of these
\* values, or none.
RawResults ==
    {[NoData EXCEPT !.keys = <<"status">>, !.status = s] : s \in RawStatuses}
      \cup {[NoData EXCEPT !.keys = <<"reason_html">>, !.reason_html = Reason]}

InitNorm ==
    /\ use_backend = FALSE
    /\ graph_data = EmptyDict /\ law_context = <<>> /\ status = <<>>
    /\ analysis_result = EmptyDict /\ mm_code = <<>> /\ graph_url = NoUrl
    /\ calls = <<>> /\ session = NoData /\ error_shown = FALSE
    /\ \/ /\ who \in Executors /\ pc = who /\ stage = "norm"
          /\ raw_analysis \in RawAnalyses
          /\ data = NoData
       \/ /\ who = "local" /\ pc = "post" /\ stage = "returned"
          /\ raw_analysis = EmptyDict
          /\ data \in RawResults

NextNorm ==
    \/ \E w \in Executors : Normalize(w)
    \/ StoreResult

SpecNorm == InitNorm /\ [][NextNorm]_vars

Canonical == {UNACCEPTABLE, ACCEPTABLE_WITH_SAFEGUARDS, ACCEPTABLE, UNDER_REVIEW}

C1_HandlerCanonical == stage = "render" => status \in Canonical

\* The raw status as text: str(raw_analysis.get("status", "")).
RawStatusText == PyStr(Get(raw_analysis, "status", <<>>))

\* c with nothing but white space before and after it.
Padded(s, c) ==
    \E i \in 1..Len(s) :
      /\ i + Len(c) - 1 <= Len(s)
      /\ SubSeq(s, i, i + Len(c) - 1) = c
      /\ \A k \in 1..Len(s) :
           (k < i \/ k > i + Len(c) - 1) => s[k] \in Whitespace

\* C2: after the normalization of the handler or the local path, the status
\* is UNACCEPTABLE when the raw text contains "수임 불가"; otherwise
\* ACCEPTABLE_WITH_SAFEGUARDS when it contains "안전장치"; otherwise
\* ACCEPTABLE when it contains "수임 가능"; otherwise UNDER_REVIEW.  A
\* canonical phrase with white space around it gives that phrase.  (No
\* marker begins or ends with white space, so the raw text contains a
\* marker exactly when the trimmed text does.)
C2_MarkerPriority ==
    stage = "render" =>
      LET s == RawStatusText
      IN  /\ Contains(s, UNACCEPTABLE) => status = UNACCEPTABLE
          /\ ~Contains(s, UNACCEPTABLE) /\ Contains(s, SafeguardsMarker)
               => status = ACCEPTABLE_WITH_SAFEGUARDS
          /\ ~Contains(s, UNACCEPTABLE) /\ ~Contains(s, SafeguardsMarker)
               /\ Contains(s, ACCEPTABLE) => status = ACCEPTABLE
          /\ ~Contains(s, UNACCEPTABLE) /\ ~Contains(s, SafeguardsMarker)
               /\ ~Contains(s, ACCEPTABLE) => status = UNDER_REVIEW
          /\ \A c \in valid_statuses : Padded(s, c) => status = c

\* A text with the safeguards phrase first and "수임 불가" after it was
\* normalized to UNACCEPTABLE.
C2_Witness ==
    /\ stage = "render"
    /\ RawStatusText = ACCEPTABLE_WITH_SAFEGUARDS \o Hae \o UNACCEPTABLE
    /\ status = UNACCEPTABLE

---------------------------------------------------------------------------
(* stage2_inject_law_context on its own, over many graphs                  *)

MaxWords == 2

\* "주", "식", "대출", "자문", "배우", "자", "문", "C": single keywords, and
\* parts that make a keyword only when they stand side by side.
LawWords ==
    {<<"<ju>">>, <<"<sik>">>, <<"<dae>", "<chul>">>,
     <<"<ja>", "<mun>">>, <<"<bae>", "<u>">>, <<"<ja>">>,
     <<"<mun>">>, NameC}

LawValues == {Concat(ws) : ws \in SeqsUpTo(LawWords, MaxWords)}

\* "name" and "지분율": a property key can hold a keyword too.
LawPropKeys == {PropKey.name, <<"<ji>", "<bun>", "<yul>">>}

\* "FAMILY OF" and "owns" hold no keyword.
LawTypes ==
    {EMPLOYED_BY, OWNS, FAMILY_OF, ReplaceUnderscores(FAMILY_OF),
     <<"o", "w", "n", "s">>}

LawGraphs ==
    {MkGraph(<<MkNode(P1, Person, <<<<k, v>>>>)>>, <<MkEdge(P1, O1, t)>>) :
       k \in LawPropKeys, v \in LawValues, t \in LawTypes}
      \cup {ErrorMarker, EmptyDict, MkGraph(<<>>, <<>>)}

InitLaw ==
    /\ use_backend = FALSE
    /\ who = "backend" /\ pc = who /\ stage = "s2"
    /\ graph_data \in LawGraphs
    /\ law_context = <<>> /\ raw_analysis = EmptyDict /\ status = <<>>
    /\ analysis_result = EmptyDict /\ mm_code = <<>> /\ graph_url = NoUrl
    /\ calls = <<Call("extract", graph_data, EmptyDict, <<JSON_OBJECT>>)>>
    /\ data = NoData /\ session = NoData /\ error_shown = FALSE

NextLaw == \E w \in Executors : Stage2(w)

SpecLaw == InitLaw /\ [][NextLaw]_vars

\* The rules as the claim lists them: equity, non-audit service, loan,
\* family.
LawRules ==
    <<[keywords |-> EquityKeywords, citation |-> LAW_EQUITY],
      [keywords |-> NonAuditKeywords, citation |-> LAW_NON_AUDIT],
      [keywords |-> LoanKeywords, citation |-> LAW_LOAN],
      [keywords |-> FamilyKeywords, citation |-> LAW_FAMILY]>>

\* The texts a graph object holds: the values of its own entries, and of its
\* nodes and edges the ids, labels, types, property keys and property values.
FieldTexts(g) ==
    {g.error, g.details}
      \cup UNION {{n.id, n.label} \cup {n.properties[j][1] : j \in 1..Len(n.properties)}
                    \cup {n.properties[j][2] : j \in 1..Len(n.properties)} :
                  n \in {g.nodes[i] : i \in 1..Len(g.nodes)}}
      \cup UNION {{e.source_id, e.target_id, e.type} :
                  e \in {g.relationships[i] : i \in 1..Len(g.relationships)}}

\* The citations of the rules with a keyword in the text, in the order of
\* LawRules.
FiredCitations(text) ==
    LET Fires(r) == AnyIn(r.keywords, text)
        fired == SelectSeq(LawRules, Fires)
    IN  [i \in 1..Len(fired) |-> fired[i].citation]

AllKeywords ==
    EquityKeywords \cup NonAuditKeywords \cup LoanKeywords \cup FamilyKeywords

\* C3: once stage 2 has run, law_context is the newline-join of the
\* citations of exactly the rules with a keyword in the serialized graph, in
\* declaration order and each once, or the default sentence when there is
\* none, and never empty; a rule has a keyword in the serialized graph
\* exactly when one of the graph's texts holds it; and a graph whose
\* serialized form holds "주식" and no other keyword gives the equity citation
\* alone.
C3_LawContext ==
    stage = "s3" =>
      LET text == ReprDict(graph_data)
          cited == FiredCitations(text)
          present == {k \in AllKeywords : Contains(text, k)}
      IN  /\ law_context = IF cited = <<>> THEN DEFAULT_LAW_CONTEXT
                           ELSE Join(<<"\n">>, cited)
          /\ law_context # <<>>
          /\ \A i \in 1..Len(LawRules) :
               /\ (LawRules[i].keywords \cap present # {})
                    <=> \E t \in FieldTexts(graph_data) :
                          AnyIn(LawRules[i].keywords, t)
               /\ Cardinality({k \in 1..Len(law_context) :
                                 law_context[k] = LawRules[i].citation[1]})
                    = IF LawRules[i].keywords \cap present # {} THEN 1 ELSE 0
          /\ present = {<<"<ju>", "<sik>">>} => law_context = LAW_EQUITY

\* Stage 2 ran on a graph whose only keyword is "주식", put together from
\* "주" and "식", and gave the equity citation alone.
C3_Witness ==
    /\ stage = "s3"
    /\ graph_data.nodes # <<>>
    /\ graph_data.nodes[1].properties[1][2] = <<"<ju>", "<sik>">>
    /\ graph_data.relationships[1].type = EMPLOYED_BY
    /\ law_context = LAW_EQUITY

---------------------------------------------------------------------------
(* build_graph_image_url on its own, over many graphs and annotations      *)

MaxNodes == 2
MaxEdges == 2

\* With a name and a role, with a name only, with a position and no name,
\* and without id and properties.
NodePool == {NodeAuditor, NodeClient, NodeUnnamed, NodeNoId}

\* Labels of 9, 26, 12 and 13 characters with a space, 13 characters without
\* one, and an edge without a type.
EdgePool ==
    {MkEdge(P1, P2, FAMILY_OF), MkEdge(P2, O1, SIGNIFICANT_INFLUENCE_OVER),
     MkEdge(P1, O1, BOARD_MEMBER), MkEdge(O1, P1, AUDIT_CLIENTS),
     MkEdge(P1, O1, SHAREHOLDINGS), MkUntypedEdge(P1, O1)}

RenderGraphs ==
    {MkGraph(ns, es) : ns \in SeqsUpTo(NodePool, MaxNodes),
                       es \in SeqsUpTo(EdgePool, MaxEdges)}
      \cup {ErrorMarker, EmptyDict}

\* The risk annotation: both lists absent; a node and an edge named; an
\* unknown id and positions of no edge next to ones that match; nothing but
\* references that match nothing.
RiskLists ==
    {<<<<P1>>, <<0>>>>, <<<<ZZ, O1>>, <<1, 7, -1>>>>, <<<<ZZ>>, <<7, -1>>>>}

RenderAnalyses ==
    {[EmptyDict EXCEPT !.keys = <<"risky_node_ids", "risky_edge_indices", "status">>,
                       !.status = UNDER_REVIEW,
                       !.risky_node_ids = r[1], !.risky_edge_indices = r[2]] :
       r \in RiskLists}
      \cup {[EmptyDict EXCEPT !.keys = <<"status">>, !.status = UNDER_REVIEW]}

InitRender ==
    /\ use_backend = FALSE
    /\ who = "backend" /\ pc = who /\ stage = "render"
    /\ graph_data \in RenderGraphs
    /\ analysis_result \in RenderAnalyses
    /\ raw_analysis = analysis_result /\ status = UNDER_REVIEW
    /\ law_context = <<>> /\ mm_code = <<>> /\ graph_url = NoUrl
    /\ calls = <<>> /\ data = NoData /\ session = NoData
    /\ error_shown = FALSE

NextRender == \E w \in Executors : Render(w)

SpecRender == InitRender /\ [][NextRender]_vars

AfterRender == stage \in {"respond", "raised"}

Nodes == Get(graph_data, "nodes", <<>>)
Rels == Get(graph_data, "relationships", <<>>)
RiskyIds == Get(analysis_result, "risky_node_ids", <<>>)
RiskyIdxs == Get(analysis_result, "risky_edge_indices", <<>>)

\* Every edge of the graph has a type, as the data model requires.
AllTyped == \A k \in 1..Len(Rels) : Get(Rels[k], "type", NoneVal) # NoneVal

\* The number of edge lines in mm_code: all of them, or those appended
\* before the exception.
EdgeLines ==
    IF stage = "raised" THEN Len(mm_code) - 1 - Len(Nodes) ELSE Len(Rels)

NodeLineAt(i) == mm_code[1 + i]
EdgeLineAt(k) == mm_code[1 + Len(Nodes) + k]

StartsWith(line, p) == Len(line) >= Len(p) /\ SubSeq(line, 1, Len(p)) = p
EndsWith(line, p) ==
    Len(line) >= Len(p) /\ SubSeq(line, Len(line) - Len(p) + 1, Len(line)) = p

DASHED_OPEN == " -. \""
DASHED_CLOSE == "\" .-> "
SOLID_OPEN == " ---|\""
SOLID_CLOSE == "\"| "

\* The edge line is the dashed connector with the glyph before the label.
IsDashed(line, edge) ==
    /\ StartsWith(line, <<"    ">> \o PyStr(edge.source_id) \o <<DASHED_OPEN, WARN, " ">>)
    /\ EndsWith(line, <<DASHED_CLOSE>> \o PyStr(edge.target_id))

\* The edge line is the solid connector with the plain label.
IsSolid(line, edge) ==
    /\ StartsWith(line, <<"    ">> \o PyStr(edge.source_id) \o <<SOLID_OPEN>>)
    /\ EndsWith(line, <<SOLID_CLOSE>> \o PyStr(edge.target_id))
    /\ ~Contains(line, <<WARN>>)

\* The label text of an edge line of either style.
LabelIn(line, edge) ==
    SubSeq(line,
           1 + Len(PyStr(edge.source_id)) + (IF line[2 + Len(PyStr(edge.source_id))] = DASHED_OPEN THEN 3 ELSE 1) + 1,
           Len(line) - Len(PyStr(edge.target_id)) - 1)

\* t with every underscore turned into a space.
Spaced(t) == [i \in 1..Len(t) |-> IF t[i] = "_" THEN " " ELSE t[i]]

\* label is what the claim says of the type t: when the spaced type is
\* longer than 12 characters and has a space, the spaced type with a single
\* line break (backslash, n) in place of its first space and its later
\* spaces kept; otherwise the spaced type itself.
IsLabelOf(label, t) ==
    LET u == Spaced(t)
    IN  IF Len(u) > 12 /\ \E i \in 1..Len(u) : u[i] = " "
        THEN \E p \in 1..Len(u) :
               /\ u[p] = " " /\ \A q \in 1..(p - 1) : u[q] # " "
               /\ Len(label) = Len(u) + 1
               /\ \A q \in 1..(p - 1) : label[q] = u[q]
               /\ label[p] = "\\" /\ label[p + 1] = "n"
               /\ \A q \in (p + 1)..Len(u) : label[q + 1] = u[q]
               /\ Cardinality({q \in 1..Len(label) : label[q] = "\\"}) = 1
        ELSE label = u

\* C4: the label of every edge line is the edge type with underscores as
\* spaces, with one line break at the first space exactly when it is longer
\* than 12 characters and has a space; "FAMILY OF" stays on one line and
\* "SIGNIFICANT INFLUENCE OVER" breaks once, after SIGNIFICANT.
C4_LabelWrap ==
    AfterRender =>
      \A k \in 1..EdgeLines :
        LET label == LabelIn(EdgeLineAt(k), Rels[k])
        IN  /\ IsLabelOf(label, Rels[k].type)
            /\ Rels[k].type = FAMILY_OF => label = <<"F", "A", "M", "I", "L", "Y", " ", "O", "F">>
            /\ Rels[k].type = SIGNIFICANT_INFLUENCE_OVER =>
                 /\ SubSeq(label, 12, 13) = <<"\\", "n">>
                 /\ label[23] = " "

\* A 26-character label was broken once and a 12-character label with a
\* space was not.
C4_Witness ==
    /\ stage = "respond"
    /\ Len(Rels) = 2
    /\ Rels[1].type = SIGNIFICANT_INFLUENCE_OVER /\ Rels[2].type = BOARD_MEMBER
    /\ Len(LabelIn(EdgeLineAt(1), Rels[1])) = 27
    /\ LabelIn(EdgeLineAt(2), Rels[2]) = Spaced(BOARD_MEMBER)

\* The analysis with the references that match nothing in the graph taken
\* out: ids of no node, positions of no edge.
MatchedOnly(a) ==
    LET IsId(x) == \E i \in 1..Len(Nodes) : Get(Nodes[i], "id", NoneVal) = x
        IsIdx(n) == n \in 0..(Len(Rels) - 1)
    IN  [a EXCEPT !.risky_node_ids = SelectSeq(a.risky_node_ids, IsId),
                  !.risky_edge_indices = SelectSeq(a.risky_edge_indices, IsIdx)]

\* C5: the node loop never raises; the line of every node begins with the
\* node's id and carries the glyph and the class riskyNode exactly when the
\* id is in risky_node_ids, and otherwise the class normalNode and no glyph,
\* with or without a role; a graph whose edges all have a type is rendered
\* without an exception; and ids that match no node change nothing.
C5_RiskyNodes ==
    AfterRender =>
      /\ Len(mm_code) >= 1 + Len(Nodes)
      /\ AllTyped => stage = "respond"
      /\ \A i \in 1..Len(Nodes) :
           LET id == Get(Nodes[i], "id", NoneVal)
               line == NodeLineAt(i)
               risky == \E j \in 1..Len(RiskyIds) : RiskyIds[j] = id
               open == <<"    ">> \o PyStr(id) \o <<"[\"">>
           IN  /\ risky => /\ StartsWith(line, open \o <<WARN, " ">>)
                           /\ line[Len(line)] = "riskyNode"
               /\ ~risky => /\ StartsWith(line, open)
                            /\ ~Contains(line, <<WARN>>)
                            /\ line[Len(line)] = "normalNode"
      /\ build_graph_image_url(graph_data, MatchedOnly(analysis_result)).mm_code
           = mm_code

\* A node with a role was flagged and styled risky, next to a node that was
\* not, under a list without unknown ids.
C5_Witness ==
    /\ stage = "respond"
    /\ Nodes = <<NodeAuditor, NodeClient>>
    /\ RiskyIds = <<P1>>
    /\ NodeLineAt(1)[Len(NodeLineAt(1))] = "riskyNode"
    /\ NodeLineAt(2)[Len(NodeLineAt(2))] = "normalNode"

\* C6: a graph whose edges all have a type is rendered without an exception
\* whatever risky_edge_indices holds; the edge at 0-based position i is the
\* dashed connector with the glyph exactly when i is in risky_edge_indices,
\* and the solid connector otherwise; the label is the same text in both
\* styles; positions of no edge change nothing.
C6_RiskyEdges ==
    AfterRender =>
      /\ AllTyped => stage = "respond"
      /\ \A k \in 1..EdgeLines :
           LET line == EdgeLineAt(k)
               risky == \E j \in 1..Len(RiskyIdxs) : RiskyIdxs[j] = k - 1
           IN  /\ risky => IsDashed(line, Rels[k])
               /\ ~risky => IsSolid(line, Rels[k])
               /\ IsLabelOf(LabelIn(line, Rels[k]), Rels[k].type)
      /\ build_graph_image_url(graph_data, MatchedOnly(analysis_result)).mm_code
           = mm_code

\* Under the indices 1, 7 and -1 the second edge, whose label is wrapped,
\* was rendered dashed and the first solid.
C6_Witness ==
    /\ stage = "respond"
    /\ RiskyIdxs = <<1, 7, -1>>
    /\ Len(Rels) = 2
    /\ Rels[2].type = AUDIT_CLIENTS
    /\ IsSolid(EdgeLineAt(1), Rels[1])
    /\ IsDashed(EdgeLineAt(2), Rels[2])

\* C7: for a graph whose edges all have a type the markup is the header
\* line, one line per node in the order of nodes, one line per relationship
\* in the order of relationships, then the class declarations normalNode
\* and riskyNode, in that order and nothing else.
C7_MarkupLayout ==
    AfterRender /\ AllTyped =>
      /\ stage = "respond"
      /\ Len(mm_code) = 1 + Len(Nodes) + Len(Rels) + 2
      /\ mm_code[1] = MM_HEADER
      /\ \A i \in 1..Len(Nodes) :
           StartsWith(NodeLineAt(i),
                      <<"    ">> \o PyStr(Get(Nodes[i], "id", NoneVal)) \o <<"[\"">>)
      /\ \A k \in 1..Len(Rels) :
           IsDashed(EdgeLineAt(k), Rels[k]) \/ IsSolid(EdgeLineAt(k), Rels[k])
      /\ mm_code[Len(mm_code) - 1] = CLASSDEF_NORMAL
      /\ mm_code[Len(mm_code)] = CLASSDEF_RISKY
      /\ graph_url.b64_of = Join(<<"\n">>, mm_code)

\* A graph without nodes and edges, under an analysis without risky
\* entries, was rendered as the header and the two declarations.
C7_Witness ==
    /\ stage = "respond"
    /\ Nodes = <<>> /\ Rels = <<>>
    /\ RiskyIds = <<>> /\ RiskyIdxs = <<>>
    /\ mm_code = <<MM_HEADER, CLASSDEF_NORMAL, CLASSDEF_RISKY>>

\* C8: whatever id or type is missing, the render ends without an exception
\* and with a line for every node and every edge.
C8_NoCrashNoOmission ==
    AfterRender =>
      /\ stage = "respond"
      /\ Len(mm_code) = 1 + Len(Nodes) + Len(Rels) + 2

\* The part of C8 about nodes: a node without an id still gets its line.
C8_NodeWithoutId ==
    AfterRender =>
      \A i \in 1..Len(Nodes) :
        ~Has(Nodes[i], "id") =>
          /\ Len(mm_code) >= 1 + i
          /\ StartsWith(NodeLineAt(i), <<"    ", "N", "o", "n", "e", "[\"">>)

---------------------------------------------------------------------------
(* The pipeline as a whole                                                 *)

\* The replies that json.loads rejects: a reply cut short, bare or fenced,
\* prose around the object without a fence, and an empty reply.
InvalidTexts ==
    {<<JSON_TRUNCATED>>, <<PROSE, " ", JSON_OBJECT>>,
     <<FENCE_JSON, "\n", JSON_TRUNCATED, FENCE>>, <<>>}

CallNames == [i \in 1..Len(calls) |-> calls[i].name]

StageOrder == <<"extract", "annotate", "opine", "render">>

\* The execution has returned its result.
Returned == stage = "returned" /\ Len(calls) = 4

ExtractInvalid == Len(calls) >= 1 /\ calls[1].reply \in InvalidTexts
OpineInvalid == Len(calls) >= 3 /\ calls[3].reply \in InvalidTexts

IsErrorMarker(d) ==
    /\ Has(d, "error")
    /\ d.error = <<"J", "S", "O", "N", "_", "P", "A", "R", "S", "E", "_", "E", "R", "R",
      "O", "R">>
    /\ Has(d, "details")

\* The result carries the degraded opinion: nothing but the fallback status.
DegradedOpinion(d) ==
    /\ d.status = UNDER_REVIEW
    /\ d.reason_html = <<>>
    /\ d.safeguards = <<>> /\ d.relevant_laws = <<>>
    /\ d.risky_node_ids = <<>> /\ d.risky_edge_indices = <<>>

HasDiagramUrl(d) ==
    /\ Has(d, "graph_image_url")
    /\ d.graph_image_url.base = "https://mermaid.ink/img/"
    /\ d.graph_image_url.b64_of # <<>>

C10_StageOrder ==
    /\ Len(calls) <= 4
    /\ CallNames = SubSeq(StageOrder, 1, Len(calls))
    /\ stage = "s1" => Len(calls) = 0
    /\ stage = "s2" => Len(calls) = 1
    /\ stage = "s3" => Len(calls) = 2
    /\ stage \in {"norm", "render"} => Len(calls) = 3
    /\ stage \in {"respond", "returned"} => Len(calls) = 4
    /\ Len(calls) >= 2 => calls[2].graph = calls[1].graph
    /\ Len(calls) >= 3 => calls[3].graph = calls[1].graph
    /\ Len(calls) = 4 =>
         /\ calls[4].graph = calls[1].graph
         /\ calls[4].analysis = WithStatus(calls[3].analysis, status)
         /\ calls[4].analysis.status \in Canonical
         /\ calls[3].reply # NoneVal

\* The local path, entered after the backend failed, returned a result
\* after its four calls.
C10_Witness ==
    /\ Returned /\ who = "local"
    /\ CallNames = StageOrder
    /\ calls[4].graph = GraphOwns
    /\ calls[4].analysis.status = ACCEPTABLE_WITH_SAFEGUARDS

---------------------------------------------------------------------------
(* The dashboard's run as a whole                                          *)

\* The run is over and left a result in the session.
ResultStored == pc = "done" /\ ~error_shown /\ session = data /\ data # NoData

\* The run is over and showed an error; it stored nothing.
ErrorShown == pc = "done" /\ error_shown /\ data = NoData

\* One step of a run: how the local path is entered and left.
FallbackStep ==
    \* after the health check: the backend if it answered 200, else the local path
    /\ pc = "health" /\ pc' # "health" =>
         \/ use_backend' /\ who' = "backend" /\ pc' = "backend"
         \/ ~use_backend' /\ who' = "local" /\ pc' = "local" /\ stage' = "s1"
    \* after the POST: the 200 reply is taken, anything else starts the local path
    /\ pc = "backend" /\ pc' # "backend" =>
         \/ stage' = "returned" /\ who' = "backend" /\ pc' = "post"
         \/ /\ stage \in {"s1", "raised"} /\ ~use_backend'
            /\ who' = "local" /\ pc' = "local" /\ stage' = "s1" /\ calls' = <<>>
            /\ ~error_shown'
    \* the local path starts only in those two ways
    /\ who # "local" /\ who' = "local" => pc \in {"health", "backend"}
    \* once started it is not started again, and the backend is not asked again
    /\ who = "local" /\ pc # "done" => who' = "local"
    /\ who = "local" /\ stage # "s1" /\ pc # "done" => stage' # "s1"
    \* with a 200 reply the local path is not entered
    /\ who = "backend" /\ pc \in {"post", "done"} => who' # "local"
    \* an error is shown only when the local path raised
    /\ ~error_shown /\ error_shown' => who = "local" /\ stage = "raised"
    \* the session changes only by storing the result of this run
    /\ session' # session => pc = "post" /\ session' = data'

\* C11: in one run the local path is entered once when the health check
\* fails or when the POST raises or is answered with a status other than
\* 200, in no other way and not a second time, and never after a 200 reply;
\* the backend is asked at most once; every run that is started ends, with
\* the result stored in the session or with an error shown, never with both
\* and never with neither.
C11_SingleFallback ==
    /\ [](pc = "done" => (ResultStored \/ ErrorShown))
    /\ [](who = "local" => ~use_backend /\ Len(calls) <= 4)
    /\ [][FallbackStep]_vars
    /\ (pc = "health" ~> pc = "done")
    /\ (pc = "local" ~> pc = "done")

\* The local path ran to its end and its result is in the session.
C11_Witness ==
    /\ ResultStored
    /\ who = "local" /\ ~use_backend
    /\ Len(calls) = 4
    /\ session.graph = GraphOwns

\* A result, or an opinion, whose only entry is the status c.
ResultWithStatus(c) == [NoData EXCEPT !.keys = <<"status">>, !.status = c]
OpinionWithStatus(c) == [EmptyDict EXCEPT !.keys = <<"status">>, !.status = c]

\* C12: each of the four values is a fixed point of the normalization of the
\* handler and the local path and of the dashboard's; the result that
\* reaches the dashboard's normalization carries the status the pipeline
\* produced, that normalization leaves the result as it is, and the status
\* in the session, like the rest of the stored result, is the one the
\* pipeline produced.
C12_Idempotent ==
    /\ \A c \in Canonical :
         /\ NormalizeStatus(OpinionWithStatus(c)) = c
         /\ DashboardNormalize(ResultWithStatus(c)) = ResultWithStatus(c)
    /\ pc = "post" =>
         /\ data.status = status /\ status \in Canonical
         /\ NormalizeStatus(data) = status
         /\ DashboardNormalize(data) = data
    /\ pc = "done" /\ ~error_shown =>
         /\ session.status = status /\ status \in Canonical
         /\ session = ResultDict

\* The handler fell back to UNDER_REVIEW for an opinion without a status,
\* the dashboard normalized that once more, and the session holds it.
C12_Witness ==
    /\ pc = "done" /\ ~error_shown
    /\ who = "backend"
    /\ ~Has(raw_analysis, "status") /\ Has(raw_analysis, "reason")
    /\ session.status = UNDER_REVIEW

=============================================================================
